---- MODULE Spec2Model ----
(***************************************************************************)
(* Linear Kalman Filter in a Fourier basis (LKFFB): the minimal-retention  *)
(* filter kf_2017 (func_mlkalman_2017_Mar_24_fastedits.py) and the         *)
(* full-retention filter detailed_kf (kf/detailed.py), called one after    *)
(* the other on the same inputs; an exception of the first call ends the   *)
(* run.                                                                    *)
(*                                                                         *)
(* Numbers.  A float is modelled by the real number it stands for: an      *)
(* exact rational <<n, d>> in lowest terms with d > 0, or the non-finite   *)
(* value <<0, 0>> (nan and +-inf of the float arithmetic, which the code   *)
(* only ever tells apart from the finite values, with np.isfinite).        *)
(* Angles are counted in quarter turns (pi/2): a basis frequency is the    *)
(* number of quarter turns per unit time and the phase correction a number *)
(* of quarter turns, so that every cosine and sine is -1, 0 or 1.          *)
(*                                                                         *)
(* Indices.  Vectors and matrices are sequences indexed from 1 (component  *)
(* c of the code is element c+1); arrays over time keep the code's index,  *)
(* 0..num-1.                                                               *)
(***************************************************************************)
EXTENDS Integers, Sequences, FiniteSets, TLC

----------------------------------------------------------------------------
(* Exact arithmetic with a non-finite value. *)

NaN == <<0, 0>>

Unrepresentable == CHOOSE v \in {} : TRUE

Abs(n) == IF n < 0 THEN -n ELSE n

RECURSIVE GCD(_, _)
GCD(m, n) == IF n = 0 THEN m ELSE GCD(n, m % n)

Norm(n, d) ==
    IF d = 0 THEN NaN
    ELSE LET g == GCD(Abs(n), Abs(d))
             s == IF d < 0 THEN -1 ELSE 1
         IN  <<(s * n) \div g, (s * d) \div g>>

R(n) == <<n, 1>>

IsFinite(v) == v[2] # 0

IsZero(v) == v[2] # 0 /\ v[1] = 0

RAdd(u, v) ==
    IF ~IsFinite(u) \/ ~IsFinite(v) THEN NaN
    ELSE Norm(u[1] * (v[2] \div GCD(u[2], v[2])) + v[1] * (u[2] \div GCD(u[2], v[2])),
              (u[2] \div GCD(u[2], v[2])) * v[2])

RNeg(v) == IF ~IsFinite(v) THEN NaN ELSE <<-v[1], v[2]>>

RSub(u, v) == RAdd(u, RNeg(v))

RMul(u, v) ==
    IF ~IsFinite(u) \/ ~IsFinite(v) THEN NaN
    ELSE Norm((u[1] \div GCD(Abs(u[1]), v[2])) * (v[1] \div GCD(Abs(v[1]), u[2])),
              (u[2] \div GCD(Abs(v[1]), u[2])) * (v[2] \div GCD(Abs(u[1]), v[2])))

(* u / v of numpy: a zero divisor gives inf or nan, both non-finite. *)
RDiv(u, v) ==
    IF ~IsFinite(u) \/ ~IsFinite(v) \/ v[1] = 0 THEN NaN
    ELSE RMul(u, Norm(v[2], v[1]))

IsSquare(n) == \E r \in 0..n : r * r = n

ISqrt(n) == CHOOSE r \in 0..n : r * r = n

(* The square root of a rational that has a rational root. *)
RSqrt(v) ==
    IF ~IsFinite(v) \/ v[1] < 0 THEN NaN
    ELSE IF IsSquare(v[1]) /\ IsSquare(v[2]) THEN <<ISqrt(v[1]), ISqrt(v[2])>>
    ELSE Unrepresentable

RECURSIVE RSum(_)
RSum(s) == IF s = <<>> THEN R(0) ELSE RAdd(Head(s), RSum(Tail(s)))

----------------------------------------------------------------------------
(* numpy: zeros, dot, outer, transposition, element-wise operations.  Arr  *)
(* gives an array its elements: every array is computed once, when built.  *)

Arr(f) == f \o <<>>

ZeroVec(n) == Arr([i \in 1..n |-> R(0)])

ZeroMat(n) == Arr([i \in 1..n |-> ZeroVec(n)])

Dot(u, v) == RSum(Arr([i \in 1..Len(u) |-> RMul(u[i], v[i])]))

MatVec(m, v) == Arr([i \in 1..Len(m) |-> Dot(m[i], v)])

Transpose(m) == Arr([j \in 1..Len(m) |-> Arr([i \in 1..Len(m) |-> m[i][j]])])

(* m times the transpose of nt *)
MatMulT(m, nt) == Arr([i \in 1..Len(m) |-> Arr([j \in 1..Len(m) |-> Dot(m[i], nt[j])])])

MatMul(m, n) == MatMulT(m, Transpose(n))

Outer(u, v) == Arr([i \in 1..Len(u) |-> Arr([j \in 1..Len(v) |-> RMul(u[i], v[j])])])

MatAdd(m, n) == Arr([i \in 1..Len(m) |-> Arr([j \in 1..Len(m) |-> RAdd(m[i][j], n[i][j])])])

MatSub(m, n) == Arr([i \in 1..Len(m) |-> Arr([j \in 1..Len(m) |-> RSub(m[i][j], n[i][j])])])

MatScale(c, m) == Arr([i \in 1..Len(m) |-> Arr([j \in 1..Len(m) |-> RMul(c, m[i][j])])])

VecScale(c, v) == Arr([i \in 1..Len(v) |-> RMul(c, v[i])])

VecAdd(u, v) == Arr([i \in 1..Len(u) |-> RAdd(u[i], v[i])])

(* arr[lo:hi] of an array over time 0..n-1, as a sequence. *)
Min(m, n) == IF m < n THEN m ELSE n

Max(m, n) == IF m > n THEN m ELSE n

PySlice(arr, n, lo, hi) ==
    Arr([i \in 1..Max(0, Min(hi, n) - Min(lo, n)) |-> arr[lo + i - 1]])

(* cos and sin of q quarter turns. *)
CosQ(q) == CASE q % 4 = 0 -> R(1) [] q % 4 = 2 -> R(-1) [] OTHER -> R(0)

SinQ(q) == CASE q % 4 = 1 -> R(1) [] q % 4 = 3 -> R(-1) [] OTHER -> R(0)

(* p[lo:hi] = v of numpy on a sequence p (hi clamped to the length): the    *)
(* shapes agree, or v has one element, which is broadcast.                  *)
SliceLen(p, lo, hi) == Max(0, Min(hi, Len(p)) - Min(lo, Len(p)))

ShapeOK(p, lo, hi, v) == Len(v) = SliceLen(p, lo, hi) \/ Len(v) = 1

SliceAssign(p, lo, hi, v) ==
    Arr([i \in 1..Len(p) |->
        IF lo < i /\ i <= Min(hi, Len(p))
        THEN (IF Len(v) = SliceLen(p, lo, hi) THEN v[i - lo] ELSE v[1])
        ELSE p[i]])

----------------------------------------------------------------------------
(* Process-noise features.  An entry of Gamma2 is r * sqrt(q), kept as the *)
(* pair <<r, q>>; the square root disappears in Q = outer(Gamma, Gamma).   *)

NaNSurd == <<NaN, NaN>>

SurdFinite(g) == IsFinite(g[1]) /\ IsFinite(g[2])

PairNorm2(x_hat, i) ==
    LET c == IF i % 2 = 1 THEN i ELSE i - 1
    IN  RAdd(RMul(x_hat[c], x_hat[c]), RMul(x_hat[c + 1], x_hat[c + 1]))

(* The division oe**2 / (x**2 + y**2) has a zero divisor for some pair. *)
DividesByZero(x_hat, numf) ==
    \E i \in 1..(2 * numf) : IsZero(PairNorm2(x_hat, i))

calc_Gamma(x_hat, oe, numf) ==
    Arr([i \in 1..(2 * numf) |->
        IF IsFinite(x_hat[i]) /\ IsFinite(RDiv(RMul(oe, oe), PairNorm2(x_hat, i)))
        THEN <<x_hat[i], RDiv(RMul(oe, oe), PairNorm2(x_hat, i))>>
        ELSE NaNSurd])

(* np.dot(a, Gamma2): a row of a only combines entries of one radicand. *)
Radicands(row, g) ==
    {g[j][2] : j \in {j \in 1..Len(g) : ~IsZero(row[j]) /\ ~IsZero(g[j][1])}}

SurdDot(a, g) ==
    Arr([i \in 1..Len(a) |->
        IF \E j \in 1..Len(g) : ~SurdFinite(g[j]) \/ ~IsFinite(a[i][j]) THEN NaNSurd
        ELSE IF Radicands(a[i], g) = {} THEN <<R(0), R(0)>>
        ELSE IF Cardinality(Radicands(a[i], g)) = 1
             THEN <<Dot(a[i], Arr([j \in 1..Len(g) |-> g[j][1]])),
                    CHOOSE q \in Radicands(a[i], g) : TRUE>>
             ELSE Unrepresentable])

(* np.outer(Gamma, Gamma.T) *)
SurdOuter(g) ==
    Arr([i \in 1..Len(g) |-> Arr([j \in 1..Len(g) |->
        IF ~SurdFinite(g[i]) \/ ~SurdFinite(g[j]) THEN NaN
        ELSE IF g[i][2] = g[j][2]
             THEN RMul(RMul(g[i][1], g[j][1]), g[i][2])
             ELSE RMul(RMul(g[i][1], g[j][1]), RSqrt(RMul(g[i][2], g[j][2])))])])

----------------------------------------------------------------------------
(* func_mlkalman_2017_Mar_24_fastedits.py *)

ZERO_GAIN == 0

PROP_FORWARD == 1

PredictionMethod == [ZeroGain |-> ZERO_GAIN, PropForward |-> PROP_FORWARD]

coswave == -1

(* calc_pred: for every time index of the slice, the sum of the entries    *)
(* x_hat[::2] (components 0, 2, ...: elements 1, 3, ... here).             *)
calc_pred(x_hat_slice) ==
    Arr([t \in 1..Len(x_hat_slice) |->
        RSum(Arr([p \in 1..(Len(x_hat_slice[t]) \div 2) |-> x_hat_slice[t][2 * p - 1]]))])

(* As kf_dynamic_model, with the two sine entries of each block exchanged. *)
kf_dynamic_model_transposed(freq_basis_array, Delta_T_Sampling) ==
    LET twonumf == 2 * Len(freq_basis_array)
        q(i) == Delta_T_Sampling * freq_basis_array[(i + 1) \div 2]
        upper(i) == RMul(R(coswave), SinQ(q(i)))
    IN  Arr([i \in 1..twonumf |-> Arr([j \in 1..twonumf |->
            IF i = j THEN CosQ(q(i))
            ELSE IF i % 2 = 1 /\ j = i + 1 THEN RNeg(upper(i))
            ELSE IF i % 2 = 0 /\ j = i - 1 THEN upper(j)
            ELSE R(0)])])

(* The dynamical model a of _kf_2017: one 2x2 block per basis frequency.   *)
kf_dynamic_model(freq_basis_array, Delta_T_Sampling) ==
    LET twonumf == 2 * Len(freq_basis_array)
        q(i) == Delta_T_Sampling * freq_basis_array[(i + 1) \div 2]
        upper(i) == RMul(R(coswave), SinQ(q(i)))
    IN  Arr([i \in 1..twonumf |-> Arr([j \in 1..twonumf |->
            IF i = j THEN CosQ(q(i))
            ELSE IF i % 2 = 1 /\ j = i + 1 THEN upper(i)
            ELSE IF i % 2 = 0 /\ j = i - 1 THEN RNeg(upper(j))
            ELSE R(0)])])

(* The measurement action h: 1.0 at the even components. *)
kf_measurement_action(twonumf) ==
    Arr([i \in 1..twonumf |-> IF (i - 1) % 2 = 0 THEN R(1) ELSE R(0)])

(* makePropForward: the learned amplitude sqrt(x**2 + y**2) and phase       *)
(* atan2(y, x) of a frequency are kept together as the phasor <<x, y>>;    *)
(* amplitude * cos(phase + q quarter turns) = x cos q - y sin q.           *)
InstantParams(x_hat, c) == <<x_hat[2 * c - 1], x_hat[2 * c]>>

Harmonic_Component(phasor, q) ==
    RSub(RMul(phasor[1], CosQ(q)), RMul(phasor[2], SinQ(q)))

(* Whether makePropForward adds the phase correction to component c. *)
kf_phase_corrected(freq_basis_array, c) == freq_basis_array[c] # 0

kf_makePropForward(freq_basis_array, x_hat, Delta_T_Sampling, phase_correction_noisetraces, num, n_train, numf) ==
    [tn \in 0..(num - 1) |->
        IF tn < n_train THEN R(0)
        ELSE RSum(Arr([c \in 1..numf |->
                Harmonic_Component(InstantParams(x_hat, c),
                    Delta_T_Sampling * tn * freq_basis_array[c]
                    + (IF kf_phase_corrected(freq_basis_array, c)
                       THEN phase_correction_noisetraces ELSE 0))]))]

(* Where an element of a returned sequence was read from: an index of the  *)
(* stored state history, an index of Propagate_Foward, or the np.zeros the *)
(* sequence was allocated with.                                            *)
FromStore(num) == [t \in 0..(num - 1) |-> [from |-> "store", t |-> t]]

FromForecast(num) == [t \in 0..(num - 1) |-> [from |-> "forecast", t |-> t]]

FromZeros(n) == Arr([i \in 1..n |-> [from |-> "zeros", t |-> 0]])

(* The state of a call of kf_2017 before it starts. *)
kf_idle ==
    [pc |-> "call", error |-> "", allocated |-> FALSE, aborted |-> FALSE,
     num |-> 0, numf |-> 0, k |-> 0, a |-> <<>>, h |-> <<>>,
     x_hat |-> <<>>, P_hat |-> <<>>, e_z |-> <<>>,
     store_x_hat |-> <<>>, store_P_hat |-> <<>>, step_kind |-> <<>>,
     predictions |-> <<>>, pred_src |-> <<>>, corrected |-> <<>>]

(* As kf_mode_known, with every string taken for a mode. *)
kf_mode_lenient(prediction_method) == TRUE

(* kf_2017 looks the mode up in PredictionMethod: a KeyError for any other *)
(* string, raised before _kf_2017 is entered.                              *)
kf_mode_known(prediction_method) == prediction_method \in DOMAIN PredictionMethod

(* _kf_2017 up to the loop: dimensions, arrays, model, initial conditions. *)
kf_setup(A) ==
    LET num == A.n_train + A.n_predict
        numf == Len(A.freq_basis_array)
        twonumf == 2 * numf
    IN  [kf_idle EXCEPT
            !.pc = "loop", !.allocated = TRUE, !.num = num, !.numf = numf, !.k = 1,
            !.a = kf_dynamic_model(A.freq_basis_array, A.Delta_T_Sampling),
            !.h = kf_measurement_action(twonumf),
            !.x_hat = [i \in 1..twonumf |-> A.x0],
            !.P_hat = [i \in 1..twonumf |-> [j \in 1..twonumf |->
                          IF i = j THEN A.p0 ELSE R(0)]],
            !.e_z = [t \in 0..(num - 1) |-> R(0)],
            !.store_x_hat = [t \in 0..(num - 1) |-> ZeroVec(twonumf)],
            !.store_P_hat = [t \in 0..(num - 1) |-> ZeroMat(twonumf)],
            !.step_kind = [t \in 0..(num - 1) |-> "none"],
            !.predictions = ZeroVec(A.n_testbefore + A.n_predict),
            !.pred_src = FromZeros(A.n_testbefore + A.n_predict)]

(* As kf_report_from, one index late. *)
kf_report_from_late(n_train, n_testbefore) == n_train - n_testbefore + 1

(* The first time index of the slice the minimal variant reports from. *)
kf_report_from(n_train, n_testbefore) == n_train - n_testbefore

(* As kf_zero_gain_step, with the first forecast step still corrected. *)
kf_zero_gain_step_late(mode, k, n_train) == mode = ZERO_GAIN /\ k > n_train + 1

(* The ZeroGain test of the loop: predict only, no correction. *)
kf_zero_gain_step(mode, k, n_train) == mode = ZERO_GAIN /\ k > n_train

(* As kf_prop_forward_step, one step late. *)
kf_prop_forward_step_late(mode, k, n_train) == mode = PROP_FORWARD /\ k = n_train + 1

(* The PropForward test of the loop: forecast and return. *)
kf_prop_forward_step(mode, k, n_train) == mode = PROP_FORWARD /\ k = n_train

(* The early return of PropForward, lines 183-191, from the state s the   *)
(* measurement update of step k = n_train has left.                        *)
kf_forecast(s, A, before, after) ==
    IF ~ShapeOK(s.predictions, 0, A.n_testbefore, before)
       \/ ~ShapeOK(s.predictions, A.n_testbefore, Len(s.predictions), after)
    THEN [s EXCEPT !.pc = "raised", !.error = "ValueError"]
    ELSE [s EXCEPT
            !.pc = "returned",
            !.corrected = Arr([c \in 1..s.numf |->
                              kf_phase_corrected(A.freq_basis_array, c)]),
            !.predictions = SliceAssign(
                SliceAssign(s.predictions, 0, A.n_testbefore, before),
                A.n_testbefore, Len(s.predictions), after),
            !.pred_src = SliceAssign(
                SliceAssign(s.pred_src, 0, A.n_testbefore,
                    PySlice(FromStore(s.num), s.num,
                            kf_report_from(A.n_train, A.n_testbefore), A.n_train)),
                A.n_testbefore, Len(s.predictions),
                PySlice(FromForecast(s.num), s.num, A.n_train, s.num))]

kf_return_forward(s, A) ==
    kf_forecast(s, A,
        calc_pred(PySlice(s.store_x_hat, s.num,
                          kf_report_from(A.n_train, A.n_testbefore), A.n_train)),
        PySlice(kf_makePropForward(A.freq_basis_array, s.x_hat, A.Delta_T_Sampling,
                                   A.phase_correction, s.num, A.n_train, s.numf),
                s.num, A.n_train, s.num))

(* Lines 152-155: the apriori state and covariance. *)
kf_predict(s, A) ==
    [x_hat_apriori |-> MatVec(s.a, s.x_hat),
     P_hat_apriori |->
        MatAdd(MatMul(MatMul(s.a, s.P_hat), Transpose(s.a)),
               SurdOuter(SurdDot(s.a, calc_Gamma(s.x_hat, A.oe, s.numf))))]

(* Lines 165-166: the projected measurement and its covariance S. *)
kf_innovation(s, A, prior) ==
    [z_proj |-> Dot(s.h, prior.x_hat_apriori),
     S |-> RAdd(Dot(s.h, MatVec(prior.P_hat_apriori, s.h)), A.rk)]

(* Lines 173-180: the aposteriori state and covariance of step k. *)
kf_update(s, prior, S, W, e_zk) ==
    [s EXCEPT
        !.e_z[s.k] = e_zk,
        !.x_hat = VecAdd(prior.x_hat_apriori, VecScale(e_zk, W)),
        !.P_hat = MatSub(prior.P_hat_apriori, MatScale(S, Outer(W, W))),
        !.store_x_hat[s.k] = VecAdd(prior.x_hat_apriori, VecScale(e_zk, W)),
        !.store_P_hat[s.k] = MatSub(prior.P_hat_apriori, MatScale(S, Outer(W, W))),
        !.step_kind[s.k] = "correct"]

(* Lines 182-193: forecast and return at k = n_train, or the next step. *)
kf_step_end(s, A) ==
    IF kf_prop_forward_step(PredictionMethod[A.prediction_method], s.k, A.n_train)
    THEN kf_return_forward(s, A)
    ELSE [s EXCEPT !.k = s.k + 1]

(* As kf_correct, with the test of S_inv after the update of step k. *)
kf_correct_late(s, A, prior, inn) ==
    IF ~IsFinite(RDiv(R(1), inn.S))
    THEN [kf_update(s, prior, inn.S,
              VecScale(RDiv(R(1), inn.S), MatVec(prior.P_hat_apriori, s.h)),
              RSub(A.y_signal[s.k], inn.z_proj))
            EXCEPT !.aborted = TRUE, !.pc = "exit"]
    ELSE kf_step_end(
            kf_update(s, prior, inn.S,
                VecScale(RDiv(R(1), inn.S), MatVec(prior.P_hat_apriori, s.h)),
                RSub(A.y_signal[s.k], inn.z_proj)),
            A)

(* Lines 167-180: S_inv = 1.0/S, the break when it is not finite, the gain. *)
kf_correct(s, A, prior, inn) ==
    IF ~IsFinite(RDiv(R(1), inn.S))
    THEN [s EXCEPT !.aborted = TRUE, !.pc = "exit"]
    ELSE kf_step_end(
            kf_update(s, prior, inn.S,
                VecScale(RDiv(R(1), inn.S), MatVec(prior.P_hat_apriori, s.h)),
                RSub(A.y_signal[s.k], inn.z_proj)),
            A)

(* Lines 157-193, from the apriori estimates. *)
kf_step(s, A, prior) ==
    IF kf_zero_gain_step(PredictionMethod[A.prediction_method], s.k, A.n_train)
    THEN [s EXCEPT
            !.x_hat = prior.x_hat_apriori, !.P_hat = prior.P_hat_apriori,
            !.store_x_hat[s.k] = prior.x_hat_apriori,
            !.store_P_hat[s.k] = prior.P_hat_apriori,
            !.step_kind[s.k] = "predict", !.k = s.k + 1]
    ELSE kf_correct(s, A, prior, kf_innovation(s, A, prior))

(* One iteration of the while loop of _kf_2017, lines 152-193.  raises     *)
(* says whether a zero divisor in calc_Gamma raises ZeroDivisionError (the *)
(* compiled function's Python error model) or gives nan (numpy's).         *)
kf_iteration(s, A, raises) ==
    IF raises /\ DividesByZero(s.x_hat, s.numf)
    THEN [s EXCEPT !.pc = "raised", !.error = "ZeroDivisionError"]
    ELSE kf_step(s, A, kf_predict(s, A))

(* After the loop, lines 195-196. *)
kf_after_loop(s, A) ==
    LET lo == kf_report_from(A.n_train, A.n_testbefore)
    IN  [s EXCEPT
            !.pc = "returned",
            !.predictions = calc_pred(PySlice(s.store_x_hat, s.num, lo, s.num)),
            !.pred_src = PySlice(FromStore(s.num), s.num, lo, s.num)]

----------------------------------------------------------------------------
(* kf/common.py, imported by kf/detailed.py. *)

(* get_dynamic_model: block-diagonal, one 2x2 rotation block per basis     *)
(* frequency, with the sine entries placed as _kf_2017 places them (C15):  *)
(* [[cos, cos_wave sin], [-cos_wave sin, cos]].                            *)
get_dynamic_model(twonumf, Delta_T_Sampling, freq_basis_array, cos_wave) ==
    LET q(i) == Delta_T_Sampling * freq_basis_array[(i + 1) \div 2]
    IN  Arr([i \in 1..twonumf |-> Arr([j \in 1..twonumf |->
            IF i = j THEN CosQ(q(i))
            ELSE IF i % 2 = 1 /\ j = i + 1 THEN RMul(R(cos_wave), SinQ(q(i)))
            ELSE IF i % 2 = 0 /\ j = i - 1 THEN RNeg(RMul(R(cos_wave), SinQ(q(i))))
            ELSE R(0)])])

(* calc_Gamma: feature_i = x_i * sqrt(oe^2 / (x_i^2 + x_{i+1}^2)). *)
common_calc_Gamma(x_hat, oe, numf) ==
    Arr([i \in 1..(2 * numf) |->
        IF IsFinite(x_hat[i]) /\ IsFinite(RDiv(RMul(oe, oe), PairNorm2(x_hat, i)))
        THEN <<x_hat[i], RDiv(RMul(oe, oe), PairNorm2(x_hat, i))>>
        ELSE NaNSurd])

(* propagate_states: x- = A x, P- = A P A^T + Q, Q = Gamma Gamma^T with    *)
(* Gamma = A feature, the feature taken from the previous posterior state. *)
process_noise(a, x_hat, oe, numf) ==
    SurdOuter(SurdDot(a, common_calc_Gamma(x_hat, oe, numf)))

propagate_with(a, x_hat, P_hat, Q) ==
    [x_hat |-> MatVec(a, x_hat),
     P_hat |-> MatAdd(MatMul(MatMul(a, P_hat), Transpose(a)), Q),
     Q |-> Q]

propagate_states(a, x_hat, P_hat, oe, numf) ==
    propagate_with(a, x_hat, P_hat, process_noise(a, x_hat, oe, numf))

(* calc_Kalman_Gain: S = h P- h^T + R, W = P- h^T / S. *)
gain_with(h, P_hat, S) ==
    [W |-> Arr([i \in 1..Len(h) |-> RDiv(Dot(P_hat[i], h), S)]), S |-> S]

calc_Kalman_Gain(h, P_hat, rk) ==
    gain_with(h, P_hat, RAdd(Dot(h, MatVec(P_hat, h)), rk))

(* calc_residuals: e_z = z - h x-. *)
calc_residuals(h, x_hat, z) == RSub(z, Dot(h, x_hat))

(* calc_inst_params: amplitude and phase of every frequency, as phasors. *)
calc_inst_params(x_hat) ==
    Arr([c \in 1..(Len(x_hat) \div 2) |-> InstantParams(x_hat, c)])

(* calc_pred: the sum over the frequency pairs of the real component. *)
common_calc_pred(x_hat_slice) ==
    Arr([t \in 1..Len(x_hat_slice) |->
        RSum(Arr([p \in 1..(Len(x_hat_slice[t]) \div 2) |-> x_hat_slice[t][2 * p - 1]]))])

----------------------------------------------------------------------------
(* kf/detailed.py *)

(* Whether makePropForward adds the phase correction to component c: the   *)
(* first component (index 0) is summed without it, the others with it.     *)
detailed_phase_corrected(freq_basis_array, c) == c > 1

detailed_harmonic_sum(freq_basis_array, prediction, Delta_T_Sampling, phase_correction_noisetraces, num, n_train, numf) ==
    [tn \in 0..(num - 1) |->
        IF tn < n_train THEN R(0)
        ELSE RSum(Arr([c \in 1..numf |->
                Harmonic_Component(prediction[c],
                    Delta_T_Sampling * tn * freq_basis_array[c]
                    + (IF detailed_phase_corrected(freq_basis_array, c)
                       THEN phase_correction_noisetraces ELSE 0))]))]

detailed_instant_params(x_hat, num, numf) ==
    [k \in 0..(num - 1) |->
        IF k >= 1 THEN calc_inst_params(x_hat[k])
        ELSE Arr([c \in 1..numf |-> <<R(0), R(0)>>])]

detailed_makePropForward(freq_basis_array, x_hat, Delta_T_Sampling, phase_correction_noisetraces, num, n_train, numf) ==
    [Propagate_Foward |->
        detailed_harmonic_sum(freq_basis_array,
            detailed_instant_params(x_hat, num, numf)[n_train], Delta_T_Sampling,
            phase_correction_noisetraces, num, n_train, numf),
     instantAP |-> detailed_instant_params(x_hat, num, numf)]

(* The state of a call of detailed_kf before it starts. *)
detailed_idle ==
    [pc |-> "call", error |-> "", num |-> 0, numf |-> 0, k |-> 0,
     a |-> <<>>, h |-> <<>>, x_hat |-> <<>>, P_hat |-> <<>>, Q |-> <<>>,
     S |-> <<>>, W |-> <<>>, e_z |-> <<>>, store_S_Outer_W |-> <<>>,
     apriori_x |-> <<>>, apriori_P |-> <<>>, forced_zero |-> {},
     predictions |-> <<>>, pred_src |-> <<>>, corrected |-> <<>>,
     instantA |-> <<>>, saved |-> FALSE]

(* detailed_kf up to the loop, lines 137-178. *)
detailed_setup(A) ==
    LET num == A.n_predict + A.n_train
        numf == Len(A.freq_basis_array)
        twonumf == 2 * numf
        zeros == [t \in 0..(num - 1) |-> ZeroVec(twonumf)]
        zeromats == [t \in 0..(num - 1) |-> ZeroMat(twonumf)]
        scalars == [t \in 0..(num - 1) |-> R(0)]
    IN  [detailed_idle EXCEPT
            !.pc = "loop", !.num = num, !.numf = numf, !.k = 1,
            !.a = get_dynamic_model(twonumf, A.Delta_T_Sampling, A.freq_basis_array, -1),
            !.h = [i \in 1..twonumf |-> IF (i - 1) % 2 = 0 THEN R(1) ELSE R(0)],
            !.x_hat = [t \in 0..(num - 1) |->
                          IF t = 0 THEN [i \in 1..twonumf |-> A.x0] ELSE ZeroVec(twonumf)],
            !.P_hat = [t \in 0..(num - 1) |->
                          IF t = 0 THEN [i \in 1..twonumf |-> [j \in 1..twonumf |->
                                            IF i = j THEN A.p0 ELSE R(0)]]
                          ELSE ZeroMat(twonumf)],
            !.Q = zeromats, !.S = scalars, !.W = zeros, !.e_z = scalars,
            !.store_S_Outer_W = zeromats,
            !.apriori_x = zeros, !.apriori_P = zeromats,
            !.predictions = ZeroVec(A.n_testbefore + A.n_predict),
            !.pred_src = FromZeros(A.n_testbefore + A.n_predict)]

(* As detailed_skips, with no step skipped. *)
detailed_skips_never(k, skip_msmts) == FALSE

(* The measurement-skip test of the loop, line 186. *)
detailed_skips(k, skip_msmts) == k % skip_msmts # 0

(* Lines 185-198: the skip of the gain, the residual, the aposteriori     *)
(* state and covariance, from the apriori estimates and the gain.          *)
detailed_update(s, prior, S, W, e_zk, skip) ==
    [s EXCEPT
        !.apriori_x[s.k] = prior.x_hat, !.apriori_P[s.k] = prior.P_hat,
        !.Q[s.k] = prior.Q, !.W[s.k] = W, !.S[s.k] = S,
        !.forced_zero = IF skip THEN @ \cup {s.k} ELSE @,
        !.e_z[s.k] = e_zk,
        !.x_hat[s.k] = VecAdd(prior.x_hat, VecScale(e_zk, W)),
        !.store_S_Outer_W[s.k] = MatScale(S, Outer(W, W)),
        !.P_hat[s.k] = MatSub(prior.P_hat, MatScale(S, Outer(W, W))),
        !.k = s.k + 1]

(* Lines 183-198, from the results of propagate_states and calc_Kalman_Gain. *)
detailed_step(s, A, prior, gain) ==
    detailed_update(s, prior, gain.S,
        IF detailed_skips(s.k, A.skip_msmts) THEN ZeroVec(2 * s.numf) ELSE gain.W,
        calc_residuals(s.h, prior.x_hat, A.y_signal[s.k]),
        detailed_skips(s.k, A.skip_msmts))

(* Lines 183-198, from the result of propagate_states. *)
detailed_gain(s, A, prior) ==
    detailed_step(s, A, prior, calc_Kalman_Gain(s.h, prior.P_hat, A.rk))

(* One iteration of the while loop of detailed_kf, lines 181-198: a zero   *)
(* divisor in calc_Gamma raises or gives nan (raises); the index k of the  *)
(* arrays of length num is out of bounds when k >= num.                    *)
detailed_iteration(s, A, raises) ==
    IF raises /\ DividesByZero(s.x_hat[s.k - 1], s.numf)
    THEN [s EXCEPT !.pc = "raised", !.error = "ZeroDivisionError"]
    ELSE IF s.k >= s.num
    THEN [s EXCEPT !.pc = "raised", !.error = "IndexError"]
    ELSE detailed_gain(s, A,
            propagate_states(s.a, s.x_hat[s.k - 1], s.P_hat[s.k - 1], A.oe, s.numf))

(* As detailed_loop_test, with one more step. *)
detailed_loop_test_long(k, n_train) == k < n_train + 2

(* The test of the loop of detailed_kf, line 179: while (k< n_train+1). *)
detailed_loop_test(k, n_train) == k < n_train + 1

(* As detailed_report_from, one index late. *)
detailed_report_from_late(n_train, n_testbefore) == n_train - n_testbefore + 1

(* The first time index of the slice the full-retention variant reports from. *)
detailed_report_from(n_train, n_testbefore) == n_train - n_testbefore

(* Lines 204-233: the forecast, np.savez, the return. *)
detailed_forecast(s, A, before, mpf) ==
    [s EXCEPT
        !.pc = "returned", !.saved = TRUE,
        !.corrected = Arr([c \in 1..s.numf |->
                          detailed_phase_corrected(A.freq_basis_array, c)]),
        !.instantA = mpf.instantAP[A.n_train],
        !.predictions = SliceAssign(
            SliceAssign(s.predictions, 0, A.n_testbefore, before),
            A.n_testbefore, Len(s.predictions),
            PySlice(mpf.Propagate_Foward, s.num, A.n_train, s.num)),
        !.pred_src = SliceAssign(
            SliceAssign(s.pred_src, 0, A.n_testbefore,
                PySlice(FromStore(s.num), s.num,
                        detailed_report_from(A.n_train, A.n_testbefore), A.n_train)),
            A.n_testbefore, Len(s.predictions),
            PySlice(FromForecast(s.num), s.num, A.n_train, s.num))]

(* Lines 201-205: the report of the steps before n_train, then the         *)
(* forecast, which reads index n_train of arrays of length num.            *)
detailed_report(s, A, before) ==
    IF ~ShapeOK(s.predictions, 0, A.n_testbefore, before)
    THEN [s EXCEPT !.pc = "raised", !.error = "ValueError"]
    ELSE IF A.n_train >= s.num
    THEN [s EXCEPT !.pc = "raised", !.error = "IndexError"]
    ELSE detailed_forecast(s, A, before,
            detailed_makePropForward(A.freq_basis_array, s.x_hat, A.Delta_T_Sampling,
                A.phase_correction, s.num, A.n_train, s.numf))

(* After the loop, lines 200-233. *)
detailed_after_loop(s, A) ==
    detailed_report(s, A,
        common_calc_pred(PySlice(s.x_hat, s.num,
            detailed_report_from(A.n_train, A.n_testbefore), A.n_train)))

----------------------------------------------------------------------------
(* The inputs of a run. *)

MaxTrain == 2

MaxPredict == 2

(* Basis-frequency arrays, in quarter turns per unit time: the zero        *)
(* frequency alone, a non-zero one alone, the zero one first, and last.    *)
FreqBases == {<<0>>, <<1>>, <<0, 1>>, <<1, 0>>}

(* x0, p0, oe, rk.  A non-zero process-noise strength oe is only drawn for *)
(* a single basis frequency and a record of at most four points: Q and the *)
(* estimates then stay rationals within the integers of TLC.               *)
HyperParams(numf, num) ==
    {[x0 |-> R(1), p0 |-> R(1), oe |-> R(0), rk |-> R(1)],
     [x0 |-> R(0), p0 |-> R(1), oe |-> R(0), rk |-> R(1)],
     [x0 |-> R(1), p0 |-> R(0), oe |-> R(0), rk |-> R(0)],
     [x0 |-> R(1), p0 |-> R(1), oe |-> R(0), rk |-> R(0)]}
    \cup (IF numf = 1 /\ num <= 4
          THEN {[x0 |-> R(1), p0 |-> R(1), oe |-> R(1), rk |-> R(1)]}
          ELSE {})

Signals(num) == {[t \in 0..(num - 1) |-> R(1)], [t \in 0..(num - 1) |-> R(t)]}

PhaseCorrections == {0, 1}

(* prediction_method of kf_2017 and skip_msmts of detailed_kf.  The mode is *)
(* only read by kf_2017 and the skip interval only by detailed_kf, and the  *)
(* two calls share no state: every value of each is drawn, not every pair.  *)
Calls ==
    {[prediction_method |-> "ZeroGain", skip_msmts |-> 2],
     [prediction_method |-> "PropForward", skip_msmts |-> 1],
     [prediction_method |-> "Unknown", skip_msmts |-> 1]}

(* The inputs of one run: 0 <= n_testbefore <= n_train, and a measurement  *)
(* record of n_train + n_predict points.                                   *)
BoundedInputs ==
    UNION {UNION {
        {[y_signal |-> y, n_train |-> nt, n_testbefore |-> nb, n_predict |-> np,
          Delta_T_Sampling |-> 1, x0 |-> hp.x0, p0 |-> hp.p0, oe |-> hp.oe,
          rk |-> hp.rk, freq_basis_array |-> f, phase_correction |-> pc,
          prediction_method |-> c.prediction_method, skip_msmts |-> c.skip_msmts] :
            nb \in 0..nt, hp \in HyperParams(Len(f), nt + np), y \in Signals(nt + np),
            pc \in PhaseCorrections, c \in Calls} :
        nt \in 1..MaxTrain, np \in 0..MaxPredict} : f \in FreqBases}

(* The run with one basis frequency of one turn (four quarter turns) per   *)
(* sample, measurements cos(2 pi t) = 1 for t = 0..59, zero initial state,  *)
(* unit initial covariance, oe = 0, rk = 1e-6, in mode ZeroGain.            *)
Scenario ==
    [y_signal |-> [t \in 0..59 |-> R(1)], n_train |-> 50, n_testbefore |-> 5,
     n_predict |-> 10, Delta_T_Sampling |-> 1, x0 |-> R(0), p0 |-> R(1),
     oe |-> R(0), rk |-> <<1, 1000000>>, freq_basis_array |-> <<4>>,
     phase_correction |-> 0, prediction_method |-> "ZeroGain", skip_msmts |-> 1]

VARIABLES args, kf, dkf

vars == <<args, kf, dkf>>

Init ==
    /\ args \in BoundedInputs \cup {Scenario}
    /\ kf = kf_idle
    /\ dkf = detailed_idle

(* kf_2017(...): the lookup of the mode, then _kf_2017 up to its loop. *)
KfCall ==
    /\ kf.pc = "call"
    /\ kf' = IF kf_mode_known(args.prediction_method)
             THEN kf_setup(args)
             ELSE [kf EXCEPT !.pc = "raised", !.error = "KeyError"]
    /\ UNCHANGED <<args, dkf>>

(* One iteration of while (k < num). *)
KfStep ==
    /\ kf.pc = "loop"
    /\ kf.k < kf.num
    /\ \E raises \in BOOLEAN : kf' = kf_iteration(kf, args, raises)
    /\ UNCHANGED <<args, dkf>>

(* The loop is left, by its test or by break: the report after it. *)
KfExit ==
    /\ \/ kf.pc = "loop" /\ ~(kf.k < kf.num)
       \/ kf.pc = "exit"
    /\ kf' = kf_after_loop(kf, args)
    /\ UNCHANGED <<args, dkf>>

(* detailed_kf(...) up to its loop, on the data kf_2017 has returned for. *)
DetailedCall ==
    /\ kf.pc = "returned"
    /\ dkf.pc = "call"
    /\ dkf' = detailed_setup(args)
    /\ UNCHANGED <<args, kf>>

(* One iteration of while (k < n_train + 1). *)
DetailedStep ==
    /\ dkf.pc = "loop"
    /\ detailed_loop_test(dkf.k, args.n_train)
    /\ \E raises \in BOOLEAN : dkf' = detailed_iteration(dkf, args, raises)
    /\ UNCHANGED <<args, kf>>

(* The loop is left: report, forecast, np.savez, return. *)
DetailedExit ==
    /\ dkf.pc = "loop"
    /\ ~detailed_loop_test(dkf.k, args.n_train)
    /\ dkf' = detailed_after_loop(dkf, args)
    /\ UNCHANGED <<args, kf>>

Next == KfCall \/ KfStep \/ KfExit \/ DetailedCall \/ DetailedStep \/ DetailedExit

Spec == Init /\ [][Next]_vars

----------------------------------------------------------------------------
(* Properties. *)

(* The sum of the real components (elements 1, 3, ...) of a state. *)
RealComponentSum(x) == RSum(Arr([p \in 1..(Len(x) \div 2) |-> x[2 * p - 1]]))

FromStoreAt(t) == [from |-> "store", t |-> t]

(* C1: every call that returns normally returns a sequence of exactly      *)
(* n_testbefore + n_predict values: kf_2017 in both modes, also after the   *)
(* non-finite abort, and detailed_kf.                                       *)
C1_PredictionLength ==
    /\ kf.pc = "returned" =>
          Len(kf.predictions) = args.n_testbefore + args.n_predict
    /\ dkf.pc = "returned" =>
          Len(dkf.predictions) = args.n_testbefore + args.n_predict

C1_Witness ==
    /\ kf.pc = "returned" /\ kf.aborted
    /\ dkf.pc = "returned"
    /\ args.n_testbefore > 0 /\ args.n_predict > 0

(* C2: with n_predict = 0 both variants return normally, and the returned  *)
(* sequence is the in-sample segment alone: n_testbefore values read from  *)
(* the stored states, no forecast value.  Stated for the runs with a known *)
(* mode and a non-zero initial state, which divide by no zero at step 1.   *)
C2_NoForecastReturnsInSample ==
    (/\ args.n_predict = 0
     /\ args.prediction_method \in {"ZeroGain", "PropForward"}
     /\ ~IsZero(args.x0)) =>
        /\ kf.pc # "raised"
        /\ dkf.pc # "raised"
        /\ kf.pc = "returned" =>
              /\ Len(kf.predictions) = args.n_testbefore
              /\ \A i \in 1..Len(kf.pred_src) : kf.pred_src[i].from = "store"
        /\ dkf.pc = "returned" =>
              /\ Len(dkf.predictions) = args.n_testbefore
              /\ \A i \in 1..Len(dkf.pred_src) : dkf.pred_src[i].from = "store"

(* C3: in detailed_kf, at every executed step k the gain is forced to zero *)
(* exactly when k mod skip_msmts # 0; at such a step the stored gain is the *)
(* zero vector and the stored state and covariance are the apriori ones;   *)
(* with skip_msmts = 1 no gain is forced.                                  *)
C3_SkipPolicy ==
    dkf.pc \in {"loop", "returned", "raised"} =>
        /\ \A k \in 1..(dkf.k - 1) :
              /\ (k \in dkf.forced_zero) <=> (k % args.skip_msmts # 0)
              /\ (k % args.skip_msmts # 0) =>
                    /\ dkf.W[k] = [i \in 1..(2 * dkf.numf) |-> R(0)]
                    /\ dkf.x_hat[k] = dkf.apriori_x[k]
                    /\ dkf.P_hat[k] = dkf.apriori_P[k]
        /\ args.skip_msmts = 1 => dkf.forced_zero = {}

C3_Witness ==
    /\ dkf.pc = "returned"
    /\ args.skip_msmts = 2 /\ args.n_train = 2
    /\ dkf.forced_zero = {1}
    /\ IsFinite(dkf.x_hat[1][1]) /\ IsFinite(dkf.x_hat[2][1])
    /\ dkf.W[2] # [i \in 1..(2 * dkf.numf) |-> R(0)]

(* C4: in mode ZeroGain each of the last n_predict returned values is the  *)
(* real-component sum of a state that a predict-only step produced (a step *)
(* without measurement correction): n_predict open-loop steps.             *)
C4_ForecastIsOpenLoop ==
    (kf.pc = "returned" /\ args.prediction_method = "ZeroGain" /\ ~kf.aborted) =>
        \A i \in (args.n_testbefore + 1)..(args.n_testbefore + args.n_predict) :
            /\ i \in DOMAIN kf.pred_src
            /\ kf.pred_src[i].from = "store"
            /\ kf.step_kind[kf.pred_src[i].t] = "predict"

(* C5 as stated: the first n_testbefore returned values are the estimates  *)
(* of steps n_train - n_testbefore + 1 .. n_train, in both variants.       *)
C5_LastTrainingSteps ==
    /\ kf.pc = "returned" =>
          \A i \in 1..args.n_testbefore :
              kf.pred_src[i] = FromStoreAt(args.n_train - args.n_testbefore + i)
    /\ dkf.pc = "returned" =>
          \A i \in 1..args.n_testbefore :
              dkf.pred_src[i] = FromStoreAt(args.n_train - args.n_testbefore + i)

(* C5: the first n_testbefore returned values are, in time order, the      *)
(* real-component sums of the stored states at the time indices            *)
(* n_train - n_testbefore .. n_train - 1, in both variants.                *)
C5_StepsBeforeBoundary ==
    /\ kf.pc = "returned" =>
          \A i \in 1..args.n_testbefore :
              /\ kf.pred_src[i] = FromStoreAt(args.n_train - args.n_testbefore + i - 1)
              /\ kf.predictions[i] =
                    RealComponentSum(kf.store_x_hat[args.n_train - args.n_testbefore + i - 1])
    /\ dkf.pc = "returned" =>
          \A i \in 1..args.n_testbefore :
              /\ dkf.pred_src[i] = FromStoreAt(args.n_train - args.n_testbefore + i - 1)
              /\ dkf.predictions[i] =
                    RealComponentSum(dkf.x_hat[args.n_train - args.n_testbefore + i - 1])

C5_Witness ==
    /\ kf.pc = "returned" /\ ~kf.aborted
    /\ dkf.pc = "returned"
    /\ args.n_testbefore = 2 /\ args.n_train = 2
    /\ kf.predictions[1] # kf.predictions[2]
    /\ dkf.predictions[1] # dkf.predictions[2]

(* C6: a call of kf_2017 returns a complete sequence, every value of which *)
(* a filter step or the forecast produced, or it fails; a run that hits    *)
(* the non-finite 1/S is not returned as a sequence.                       *)
C6_CompleteOrFailure ==
    kf.pc = "returned" =>
        /\ ~kf.aborted
        /\ \A i \in 1..Len(kf.pred_src) :
              \/ kf.pred_src[i].from = "forecast"
              \/ /\ kf.pred_src[i].from = "store"
                 /\ kf.pred_src[i].t >= 1 => kf.step_kind[kf.pred_src[i].t] # "none"

(* C7: in the scenario every loop step 1..59 of kf_2017 runs, without the  *)
(* non-finite abort and without an exception, and the 15 returned values   *)
(* are estimates of executed steps.                                        *)
C7_ScenarioRunsEveryStep ==
    args = Scenario =>
        /\ kf.pc # "raised"
        /\ ~kf.aborted
        /\ kf.pc = "returned" =>
              /\ Len(kf.predictions) = 15
              /\ \A t \in 1..59 : kf.step_kind[t] # "none"

(* C8: with a prediction_method other than "ZeroGain" and "PropForward",   *)
(* kf_2017 fails before an array is allocated and before a loop step runs, *)
(* and returns no sequence.                                                *)
C8_UnknownModeFailsFast ==
    args.prediction_method \notin {"ZeroGain", "PropForward"} =>
        /\ kf.pc \in {"call", "raised"}
        /\ kf.pc = "raised" => kf.error = "KeyError"
        /\ ~kf.allocated
        /\ kf.k = 0
        /\ kf.step_kind = <<>>
        /\ kf.predictions = <<>>

C8_Witness ==
    /\ args.prediction_method = "Unknown"
    /\ kf.pc = "raised" /\ kf.error = "KeyError"

(* C9: on the same inputs kf_2017 in mode PropForward and detailed_kf with *)
(* skip_msmts = 1 return the same sequence.                                *)
C9_SamePredictions ==
    (/\ args.prediction_method = "PropForward" /\ args.skip_msmts = 1
     /\ kf.pc = "returned" /\ dkf.pc = "returned") =>
        kf.predictions = dkf.predictions

(* C10: in the forecast of both variants the phase correction is added to  *)
(* the term of a basis frequency exactly when that frequency is not zero,  *)
(* at any position of the array.  Stated for a non-zero phase correction.  *)
C10_CorrectionIffNonZero ==
    /\ (kf.pc = "returned" /\ kf.corrected # <<>> /\ args.phase_correction # 0) =>
          \A c \in 1..Len(args.freq_basis_array) :
              kf.corrected[c] <=> (args.freq_basis_array[c] # 0)
    /\ (dkf.pc = "returned" /\ args.phase_correction # 0) =>
          \A c \in 1..Len(args.freq_basis_array) :
              dkf.corrected[c] <=> (args.freq_basis_array[c] # 0)

(* C11: when 1/S of step k is not finite, kf_2017 leaves the loop at once: *)
(* the state and covariance are those step k started from, no stored entry *)
(* of a step >= k is written, and no later iteration runs.                 *)
C11_AbortLeavesStepUnwritten ==
    kf.aborted =>
        /\ kf.pc \in {"exit", "returned"}
        /\ kf.x_hat = IF kf.k = 1 THEN [i \in 1..(2 * kf.numf) |-> args.x0]
                      ELSE kf.store_x_hat[kf.k - 1]
        /\ kf.P_hat = IF kf.k = 1
                      THEN [i \in 1..(2 * kf.numf) |-> [j \in 1..(2 * kf.numf) |->
                               IF i = j THEN args.p0 ELSE R(0)]]
                      ELSE kf.store_P_hat[kf.k - 1]
        /\ \A t \in kf.k..(kf.num - 1) :
              /\ kf.step_kind[t] = "none"
              /\ kf.e_z[t] = R(0)
              /\ kf.store_x_hat[t] = [i \in 1..(2 * kf.numf) |-> R(0)]
              /\ kf.store_P_hat[t] = [i \in 1..(2 * kf.numf) |->
                                        [j \in 1..(2 * kf.numf) |-> R(0)]]

C11_Witness ==
    /\ kf.aborted /\ kf.pc = "returned"
    /\ kf.k = 2 /\ kf.num > 3
    /\ kf.step_kind[1] = "correct"
    /\ kf.P_hat = kf.store_P_hat[1]
    /\ kf.P_hat[1][1] # args.p0

(* The harmonic sum of the forecast at time index t, from the state x: the *)
(* term of frequency c is x[2c-1] cos q - x[2c] sin q, q the quarter turns *)
(* Delta_T_Sampling * t * f, plus the phase correction when f # 0.         *)
HarmonicSumFrom(x, t) ==
    RSum(Arr([c \in 1..Len(args.freq_basis_array) |->
        RSub(RMul(x[2 * c - 1],
                  CosQ(args.Delta_T_Sampling * t * args.freq_basis_array[c]
                       + (IF args.freq_basis_array[c] # 0
                          THEN args.phase_correction ELSE 0))),
             RMul(x[2 * c],
                  SinQ(args.Delta_T_Sampling * t * args.freq_basis_array[c]
                       + (IF args.freq_basis_array[c] # 0
                          THEN args.phase_correction ELSE 0))))]))

(* C12: in mode PropForward kf_2017 returns in the iteration k = n_train:  *)
(* no iteration with k > n_train runs, and the forecast values are the     *)
(* harmonic sums of the posterior state of step n_train.                   *)
C12_PropForwardReturnsAtBoundary ==
    (args.prediction_method = "PropForward" /\ kf.allocated) =>
        /\ kf.k <= args.n_train
        /\ \A t \in DOMAIN kf.step_kind :
              t > args.n_train => kf.step_kind[t] = "none"
        /\ (kf.pc = "returned" /\ ~kf.aborted /\ args.n_predict > 0) =>
              /\ kf.k = args.n_train
              /\ kf.x_hat = kf.store_x_hat[args.n_train]
              /\ \A j \in 1..args.n_predict :
                    kf.predictions[args.n_testbefore + j] =
                        HarmonicSumFrom(kf.store_x_hat[args.n_train],
                                        args.n_train + j - 1)

C12_Witness ==
    /\ args.prediction_method = "PropForward"
    /\ kf.pc = "returned" /\ ~kf.aborted
    /\ args.n_train = 2 /\ args.n_predict = 2
    /\ kf.predictions[args.n_testbefore + 1] # kf.predictions[args.n_testbefore + 2]

(* The entry of step t of the histories of detailed_kf is the one the      *)
(* filter computes: residual, state and covariance follow from the apriori *)
(* estimates, the gain and the measurement of step t.                      *)
FilterComputed(t) ==
    /\ t < dkf.k
    /\ dkf.e_z[t] = RSub(args.y_signal[t], Dot(dkf.h, dkf.apriori_x[t]))
    /\ dkf.x_hat[t] = VecAdd(dkf.apriori_x[t], VecScale(dkf.e_z[t], dkf.W[t]))
    /\ dkf.P_hat[t] = MatSub(dkf.apriori_P[t],
                             MatScale(dkf.S[t], Outer(dkf.W[t], dkf.W[t])))

(* The entry of time index t of the six histories is the zero it was       *)
(* allocated with.                                                         *)
LeftAtZero(t) ==
    /\ dkf.x_hat[t] = [i \in 1..(2 * dkf.numf) |-> R(0)]
    /\ dkf.W[t] = [i \in 1..(2 * dkf.numf) |-> R(0)]
    /\ dkf.P_hat[t] = [i \in 1..(2 * dkf.numf) |-> [j \in 1..(2 * dkf.numf) |-> R(0)]]
    /\ dkf.Q[t] = [i \in 1..(2 * dkf.numf) |-> [j \in 1..(2 * dkf.numf) |-> R(0)]]
    /\ dkf.e_z[t] = R(0)
    /\ dkf.S[t] = R(0)

(* C13 as stated: the histories detailed_kf saves hold a filter-computed   *)
(* entry for every step 1..n_train+n_predict-1 of the horizon.             *)
C13_WholeHorizonFiltered ==
    dkf.saved => \A t \in 1..(dkf.num - 1) : FilterComputed(t)

(* C13: the histories detailed_kf saves have one slot for every time index *)
(* 0..n_train+n_predict-1; the slots of the training steps 1..n_train hold *)
(* the filter-computed entries, and the slots of the forecast steps        *)
(* n_train+1..n_train+n_predict-1 hold the zeros they were allocated with.  *)
C13_TrainingStepsFiltered ==
    dkf.saved =>
        /\ dkf.k = args.n_train + 1
        /\ DOMAIN dkf.x_hat = 0..(args.n_train + args.n_predict - 1)
        /\ DOMAIN dkf.P_hat = DOMAIN dkf.x_hat
        /\ DOMAIN dkf.W = DOMAIN dkf.x_hat
        /\ DOMAIN dkf.e_z = DOMAIN dkf.x_hat
        /\ DOMAIN dkf.S = DOMAIN dkf.x_hat
        /\ DOMAIN dkf.Q = DOMAIN dkf.x_hat
        /\ \A t \in 1..args.n_train : FilterComputed(t)
        /\ \A t \in (args.n_train + 1)..(dkf.num - 1) : LeftAtZero(t)

C13_Witness ==
    /\ dkf.saved
    /\ args.n_train = 2 /\ args.n_predict = 2
    /\ IsFinite(dkf.x_hat[2][1]) /\ ~IsZero(dkf.x_hat[2][1])
    /\ dkf.W[2] # [i \in 1..(2 * dkf.numf) |-> R(0)]
    /\ LeftAtZero(3)

(* C14: the array Propagate_Foward of makePropForward, in both variants,   *)
(* is zero at every index 0..n_train: the forecast steps written start at  *)
(* n_train + 1.                                                            *)
C14_ForecastStartsAfterTraining ==
    /\ (/\ kf.pc = "returned" /\ ~kf.aborted
        /\ args.prediction_method = "PropForward") =>
          \A t \in 0..Min(args.n_train, kf.num - 1) :
              kf_makePropForward(args.freq_basis_array, kf.x_hat,
                  args.Delta_T_Sampling, args.phase_correction,
                  kf.num, args.n_train, kf.numf)[t] = R(0)
    /\ dkf.saved =>
          \A t \in 0..Min(args.n_train, dkf.num - 1) :
              detailed_makePropForward(args.freq_basis_array, dkf.x_hat,
                  args.Delta_T_Sampling, args.phase_correction,
                  dkf.num, args.n_train, dkf.numf).Propagate_Foward[t] = R(0)

(* The angle of basis frequency c over one sample, in quarter turns. *)
Theta(c) == args.Delta_T_Sampling * args.freq_basis_array[c]

(* Every entry of the matrix a of _kf_2017 outside the 2x2 diagonal blocks *)
(* is exactly zero, and the diagonal of each block is cos theta.           *)
BlockDiagonal ==
    /\ \A i, j \in 1..(2 * kf.numf) :
          (i + 1) \div 2 # (j + 1) \div 2 => kf.a[i][j] = R(0)
    /\ \A c \in 1..kf.numf :
          /\ kf.a[2 * c - 1][2 * c - 1] = CosQ(Theta(c))
          /\ kf.a[2 * c][2 * c] = CosQ(Theta(c))

(* C15 as stated: the matrix of _kf_2017 is block-diagonal and, with       *)
(* cos_wave = -1, the block of each frequency has the upper-right entry    *)
(* -cos_wave sin theta and the lower-left entry cos_wave sin theta.        *)
C15_BlocksAsStated ==
    kf.allocated =>
        /\ BlockDiagonal
        /\ \A c \in 1..kf.numf :
              /\ kf.a[2 * c - 1][2 * c] = RNeg(RMul(R(-1), SinQ(Theta(c))))
              /\ kf.a[2 * c][2 * c - 1] = RMul(R(-1), SinQ(Theta(c)))

(* C15: the matrix of _kf_2017 is block-diagonal and, with cos_wave = -1,  *)
(* the block of each frequency has the upper-right entry cos_wave sin      *)
(* theta = -sin theta and the lower-left entry -cos_wave sin theta = sin   *)
(* theta: [[cos theta, -sin theta], [sin theta, cos theta]].               *)
C15_RotationBlocks ==
    kf.allocated =>
        /\ BlockDiagonal
        /\ \A c \in 1..kf.numf :
              /\ kf.a[2 * c - 1][2 * c] = RMul(R(-1), SinQ(Theta(c)))
              /\ kf.a[2 * c][2 * c - 1] = RNeg(RMul(R(-1), SinQ(Theta(c))))
              /\ kf.a[2 * c][2 * c - 1] = SinQ(Theta(c))

C15_Witness ==
    /\ kf.allocated /\ kf.numf = 2
    /\ \E c \in 1..kf.numf : kf.a[2 * c][2 * c - 1] = R(1)
    /\ \E c \in 1..kf.numf : kf.a[2 * c][2 * c - 1] = R(0)

(* A whole call of _kf_2017 from the state s: the iterations of the loop,  *)
(* a zero divisor giving nan, then the report after the loop.              *)
RECURSIVE kf_run(_, _)
kf_run(s, A) ==
    IF s.pc = "loop" /\ s.k < s.num THEN kf_run(kf_iteration(s, A, FALSE), A)
    ELSE IF s.pc \in {"loop", "exit"} THEN kf_after_loop(s, A)
    ELSE s

(* A whole call of detailed_kf from the state s. *)
RECURSIVE detailed_run(_, _)
detailed_run(s, A) ==
    IF s.pc = "loop" /\ detailed_loop_test(s.k, A.n_train)
    THEN detailed_run(detailed_iteration(s, A, FALSE), A)
    ELSE IF s.pc = "loop" THEN detailed_after_loop(s, A)
    ELSE s

(* The inputs A with d added to the measurements at the time indices T. *)
WithMeasurements(A, T, d) ==
    [A EXCEPT !.y_signal = [t \in DOMAIN A.y_signal |->
        IF t \in T THEN RAdd(A.y_signal[t], d) ELSE A.y_signal[t]]]

(* The inputs that differ from args in the measurement at index 0, in the  *)
(* measurements at the indices k > n_train, or in both.                    *)
OutsideVariants ==
    {WithMeasurements(args, T, R(1)) :
        T \in {{0}, {t \in DOMAIN args.y_signal : t > args.n_train},
               {t \in DOMAIN args.y_signal : t = 0 \/ t > args.n_train}}}

(* C16: the returned predictions do not depend on the measurement at index *)
(* 0 or on the measurements at the indices k > n_train: the run of kf_2017 *)
(* (either mode) and the run of detailed_kf on inputs that differ only     *)
(* there return the same prediction sequence.                              *)
C16_PredictionsIgnoreOutsideMeasurements ==
    /\ (kf.pc = "returned" /\ dkf.pc = "call") =>
          \A A2 \in OutsideVariants :
              LET other == kf_run(kf_setup(A2), A2)
              IN  other.pc = "returned" /\ other.predictions = kf.predictions
    /\ dkf.pc = "returned" =>
          \A A2 \in OutsideVariants :
              LET other == detailed_run(detailed_setup(A2), A2)
              IN  other.pc = "returned" /\ other.predictions = dkf.predictions

C16_Witness ==
    /\ kf.pc = "returned" /\ ~kf.aborted /\ dkf.pc = "returned"
    /\ args.prediction_method = "ZeroGain"
    /\ args.n_train = 2 /\ args.n_predict = 2 /\ args.n_testbefore > 0
    /\ \A i \in 1..Len(kf.predictions) : IsFinite(kf.predictions[i])
    /\ kf_run(kf_setup(WithMeasurements(args, {args.n_train}, R(1))),
              WithMeasurements(args, {args.n_train}, R(1))).predictions
          # kf.predictions
    /\ detailed_run(detailed_setup(WithMeasurements(args, {args.n_train}, R(1))),
              WithMeasurements(args, {args.n_train}, R(1))).predictions
          # dkf.predictions

(* The number of iterations of the loop of _kf_2017 that have run: the     *)
(* steps that were predicted or corrected, and the one the abort left.     *)
KfIterations ==
    Cardinality({t \in DOMAIN kf.step_kind : kf.step_kind[t] # "none"})
        + (IF kf.aborted THEN 1 ELSE 0)

(* C17: the step loop always ends.  In kf_2017 the index k starts at 1 and *)
(* grows by one in every iteration that stays in the loop, the predict-only *)
(* iterations of mode ZeroGain included, so the loop ends after at most    *)
(* n_train + n_predict - 1 iterations; in detailed_kf the loop ends after  *)
(* exactly n_train iterations.  Stated for a non-zero initial state, which *)
(* divides by no zero at step 1.                                           *)
C17_LoopEndsWithinBound ==
    ~IsZero(args.x0) =>
        /\ kf.allocated =>
              /\ kf.k >= 1 /\ kf.k <= Max(kf.num, 1)
              /\ \A t \in 1..(kf.k - 1) : kf.step_kind[t] # "none"
              /\ \A t \in DOMAIN kf.step_kind :
                    t >= kf.k /\ ~(kf.pc = "returned" /\ t = kf.k /\ ~kf.aborted)
                        => kf.step_kind[t] = "none"
              /\ KfIterations <= Max(args.n_train + args.n_predict - 1, 0)
        /\ dkf.pc = "loop" => dkf.k >= 1 /\ dkf.k <= args.n_train + 1
        /\ dkf.pc \in {"returned", "raised"} => dkf.k - 1 = args.n_train

====
